---------------------------- MODULE Spec2Model ----------------------------
(***************************************************************************)
(* The two SMS scripts of the repository as one state machine:             *)
(*   pinpoint/sms_sender.py  send_sms  (project-scoped path)               *)
(*   sns/sms_sender.py       send_sms  (simple-notification path)          *)
(* The module-level code (environment lookup, client construction) has run *)
(* in Init.  Each send_sms call is a run of steps, one per statement; the  *)
(* provider (boto3 client) is the environment: every operation either      *)
(* returns one of a few response shapes or raises.                         *)
(***************************************************************************)
EXTENDS Naturals, Sequences, FiniteSets

VARIABLES
    environ,                \* os.environ after load_dotenv()
    AWS_ACCESS_KEY_ID,      \* module globals, both scripts
    AWS_SECRET_ACCESS_KEY,
    AWS_REGION,
    PINPOINT_PROJECT_ID,    \* pinpoint script only
    pinpoint_client,
    sns_client,
    pc,                     \* position of the running send_sms call
    path,                   \* "pinpoint" | "sns": whose send_sms is running
    phone_number,           \* arguments of the call
    message,
    project_id,
    message_type,
    pinpoint_project_id,    \* locals of the call
    response,
    result,
    e,
    printed,                \* lines the call has written to stdout, in order
    issued,                 \* provider operations the call has invoked, in order
    outcome,                \* what the caller of send_sms observes
    history,                \* provider operations of all calls: <<send, op, raised>>
    nsends                  \* number of send_sms calls started

config == <<environ, AWS_ACCESS_KEY_ID, AWS_SECRET_ACCESS_KEY, AWS_REGION,
            PINPOINT_PROJECT_ID, pinpoint_client, sns_client>>
frame == <<path, phone_number, message, project_id, message_type,
           pinpoint_project_id, response, result, e>>
vars == <<config, pc, frame, printed, issued, outcome, history, nsends>>

\* ------------------------------------------------------------------ bounds
MaxSends == 2

\* ------------------------------------------------------------ Python values
\* None where a str is expected (an unset environment variable, project_id's default)
None == "None"
\* None as an object (send_sms of the sns script returns it implicitly)
NoneObj == [NoneType |-> TRUE]
\* a local that no statement has bound yet
Unbound == [unbound |-> TRUE]

\* bool(v) of an optional str: None and "" are falsy
Truthy(v) == v # None /\ v # ""

\* a mutation of PyOr: the right operand wins whenever it is truthy
PyOrRightFirst(a, b) == IF Truthy(b) THEN b ELSE a

\* `a or b`
PyOr(a, b) == IF Truthy(a) THEN a ELSE b

\* os.getenv(key, default): the default when the variable is unset
Getenv(env, key, default) == IF env[key] = None THEN default ELSE env[key]

\* boto3.client(service, region_name=, aws_access_key_id=, aws_secret_access_key=)
Boto3Client(service, region, key, secret) ==
    [service |-> service, region_name |-> region,
     aws_access_key_id |-> key, aws_secret_access_key |-> secret]

\* exceptions
ValueError(text) == [type |-> "ValueError", arg |-> text]
KeyError(key) == [type |-> "KeyError", arg |-> key]
ClientError(text) == [type |-> "ClientError", arg |-> text]

\* str(exc): a KeyError prints the repr of its key, the others their message
PyStr(exc) == IF exc.type = "KeyError" THEN <<"'", exc.arg, "'">> ELSE <<exc.arg>>

\* ------------------------------------------------------------- input sets
EnvNames == {"AWS_ACCESS_KEY_ID", "AWS_SECRET_ACCESS_KEY", "AWS_REGION",
             "PINPOINT_PROJECT_ID"}
Environments ==
    { env \in [EnvNames -> {None, "", "AKIAEXAMPLE", "secret", "eu-west-1", "projD"}] :
        /\ env["AWS_ACCESS_KEY_ID"] \in {None, "AKIAEXAMPLE"}
        /\ env["AWS_SECRET_ACCESS_KEY"] \in {None, "secret"}
        /\ env["AWS_REGION"] \in {None, "eu-west-1"}
        /\ env["PINPOINT_PROJECT_ID"] \in {None, "", "projD"} }
PhoneNumbers == {"", "+12363005078"}
Messages == {"", "hello"}
ProjectIds == {None, "", "projA"}
MessageTypes == {"TRANSACTIONAL", "PROMOTIONAL"}
ProviderErrors == {ClientError("ThrottlingException")}

\* per-destination result records a send_messages response can carry
ResultRecords ==
    { [StatusCode |-> 200, StatusMessage |-> "MESSAGE_SENT", MessageId |-> "abc123"],
      [StatusCode |-> 200, StatusMessage |-> "MESSAGE_SENT"],
      [StatusCode |-> 400, StatusMessage |-> "Invalid phone number"],
      [StatusCode |-> 200] }
\* responses of send_messages for one destination: a record keyed by it, or none
PinpointResponses(phone) ==
    { [MessageResponse |-> [Result |-> [a \in {phone} |-> r]]] : r \in ResultRecords }
    \cup { [MessageResponse |-> [Result |-> [a \in {} |-> Unbound]]] }
\* responses of publish: with the message id, or without
SnsResponses == { [MessageId |-> "m-1"], [ResponseMetadata |-> "r-1"] }

\* ------------------------------------------------------------------- Init
Init ==
    /\ environ \in Environments
    /\ AWS_ACCESS_KEY_ID = Getenv(environ, "AWS_ACCESS_KEY_ID", None)
    /\ AWS_SECRET_ACCESS_KEY = Getenv(environ, "AWS_SECRET_ACCESS_KEY", None)
    /\ AWS_REGION = Getenv(environ, "AWS_REGION", "us-east-1")
    /\ PINPOINT_PROJECT_ID = Getenv(environ, "PINPOINT_PROJECT_ID", None)
    /\ pinpoint_client = Boto3Client("pinpoint", AWS_REGION, AWS_ACCESS_KEY_ID,
                                     AWS_SECRET_ACCESS_KEY)
    /\ sns_client = Boto3Client("sns", AWS_REGION, AWS_ACCESS_KEY_ID,
                                AWS_SECRET_ACCESS_KEY)
    /\ pc = "idle"
    /\ path = "none"
    /\ phone_number = None /\ message = None /\ project_id = None
    /\ message_type = None /\ pinpoint_project_id = None
    /\ response = Unbound /\ result = Unbound /\ e = Unbound
    /\ printed = <<>> /\ issued = <<>> /\ history = <<>>
    /\ outcome = [kind |-> "none", value |-> Unbound]
    /\ nsends = 0

\* a caller invokes send_sms: a fresh frame, nothing printed or issued yet
Enter(p, phone, msg, proj, mtype, first) ==
    /\ nsends' = nsends + 1
    /\ path' = p /\ phone_number' = phone /\ message' = msg
    /\ project_id' = proj /\ message_type' = mtype
    /\ pinpoint_project_id' = None
    /\ response' = Unbound /\ result' = Unbound /\ e' = Unbound
    /\ printed' = <<>> /\ issued' = <<>>
    /\ outcome' = [kind |-> "none", value |-> Unbound]
    /\ pc' = first
    /\ UNCHANGED <<config, history>>

\* ------------------------------------------------- pinpoint/sms_sender.py
\* no call is running, and the caller makes another one
CanCall == pc \in {"idle", "done"} /\ nsends < MaxSends

\* send_sms(phone_number, message, project_id=None, message_type="TRANSACTIONAL")
PP_Call ==
    /\ CanCall
    /\ \E phone \in PhoneNumbers, msg \in Messages, proj \in ProjectIds,
          mtype \in MessageTypes :
           Enter("pinpoint", phone, msg, proj, mtype, "pp_resolve")

\* a mutation of PP_Resolve: the resolved id is stored in the module global
PP_ResolveIntoGlobal ==
    /\ pc = "pp_resolve"
    /\ pinpoint_project_id' = PyOr(project_id, PINPOINT_PROJECT_ID)
    /\ PINPOINT_PROJECT_ID' = PyOr(project_id, PINPOINT_PROJECT_ID)
    /\ pc' = "pp_check"
    /\ UNCHANGED <<environ, AWS_ACCESS_KEY_ID, AWS_SECRET_ACCESS_KEY, AWS_REGION,
                   pinpoint_client, sns_client, path, phone_number, message,
                   project_id, message_type, response, result, e, printed, issued,
                   outcome, history, nsends>>

\* line 37: pinpoint_project_id = project_id or PINPOINT_PROJECT_ID
PP_Resolve ==
    /\ pc = "pp_resolve"
    /\ pinpoint_project_id' = PyOr(project_id, PINPOINT_PROJECT_ID)
    /\ pc' = "pp_check"
    /\ UNCHANGED <<config, path, phone_number, message, project_id, message_type,
                   response, result, e, printed, issued, outcome, history, nsends>>

\* a mutation of PP_CheckProjectId: the check is skipped
PP_CheckProjectIdSkipped ==
    /\ pc = "pp_check"
    /\ pc' = "pp_send"
    /\ UNCHANGED <<config, frame, printed, issued, outcome, history, nsends>>

\* lines 39-40: if not pinpoint_project_id: raise ValueError(...)
PP_CheckProjectId ==
    /\ pc = "pp_check"
    /\ IF ~Truthy(pinpoint_project_id)
          THEN /\ e' = ValueError("Pinpoint Project ID is required")
               /\ pc' = "pp_except"
          ELSE /\ e' = e
               /\ pc' = "pp_send"
    /\ UNCHANGED <<config, path, phone_number, message, project_id, message_type,
                   pinpoint_project_id, response, result, printed, issued, outcome,
                   history, nsends>>

\* the request send_messages is called with (lines 43-56)
SendMessagesRequest ==
    [op |-> "send_messages",
     ApplicationId |-> pinpoint_project_id,
     Address |-> phone_number,
     ChannelType |-> "SMS",
     Body |-> message,
     MessageType |-> message_type]

\* lines 42-57, the provider answers
PP_SendMessagesReturns ==
    /\ pc = "pp_send"
    /\ \E r \in PinpointResponses(phone_number) :
        /\ response' = r
        /\ issued' = Append(issued, [request |-> SendMessagesRequest,
                                      raised |-> FALSE, returned |-> r])
    /\ history' = Append(history, <<nsends, "send_messages", FALSE>>)
    /\ pc' = "pp_result"
    /\ UNCHANGED <<config, path, phone_number, message, project_id, message_type,
                   pinpoint_project_id, result, e, printed, outcome, nsends>>

\* a mutation of PP_SendMessagesRaises: the call is tried again after a failure
PP_SendMessagesRetried ==
    /\ pc = "pp_send"
    /\ Len(issued) < 2
    /\ \E x \in ProviderErrors :
        issued' = Append(issued, [request |-> SendMessagesRequest,
                                   raised |-> TRUE, returned |-> x])
    /\ history' = Append(history, <<nsends, "send_messages", TRUE>>)
    /\ UNCHANGED <<config, frame, pc, printed, outcome, nsends>>

\* lines 42-57, the provider raises
PP_SendMessagesRaises ==
    /\ pc = "pp_send"
    /\ \E x \in ProviderErrors :
        /\ e' = x
        /\ issued' = Append(issued, [request |-> SendMessagesRequest,
                                      raised |-> TRUE, returned |-> x])
    /\ history' = Append(history, <<nsends, "send_messages", TRUE>>)
    /\ pc' = "pp_except"
    /\ UNCHANGED <<config, path, phone_number, message, project_id, message_type,
                   pinpoint_project_id, response, result, printed, outcome, nsends>>

\* line 59: result = response['MessageResponse']['Result'][phone_number]
PP_ReadResult ==
    /\ pc = "pp_result"
    /\ IF phone_number \in DOMAIN response.MessageResponse.Result
          THEN /\ result' = response.MessageResponse.Result[phone_number]
               /\ e' = e
               /\ pc' = "pp_print_status"
          ELSE /\ result' = result
               /\ e' = KeyError(phone_number)
               /\ pc' = "pp_except"
    /\ UNCHANGED <<config, path, phone_number, message, project_id, message_type,
                   pinpoint_project_id, response, printed, issued, outcome, history,
                   nsends>>

\* line 60: print(f"... Status: {result['StatusCode']} - {result['StatusMessage']}")
PP_PrintStatus ==
    /\ pc = "pp_print_status"
    /\ IF "StatusCode" \notin DOMAIN result
          THEN /\ e' = KeyError("StatusCode")
               /\ printed' = printed
               /\ pc' = "pp_except"
          ELSE IF "StatusMessage" \notin DOMAIN result
          THEN /\ e' = KeyError("StatusMessage")
               /\ printed' = printed
               /\ pc' = "pp_except"
          ELSE /\ e' = e
               /\ printed' = Append(printed,
                                    [fmt |-> "pp_sent",
                                     StatusCode |-> result.StatusCode,
                                     StatusMessage |-> result.StatusMessage])
               /\ pc' = "pp_print_id"
    /\ UNCHANGED <<config, path, phone_number, message, project_id, message_type,
                   pinpoint_project_id, response, result, issued, outcome, history,
                   nsends>>

\* result.get('MessageId', 'N/A')
GetMessageId(rec) == IF "MessageId" \in DOMAIN rec THEN rec.MessageId ELSE "N/A"

\* line 61: print(f"   Message ID: {result.get('MessageId', 'N/A')}")
PP_PrintMessageId ==
    /\ pc = "pp_print_id"
    /\ printed' = Append(printed, [fmt |-> "pp_message_id",
                                   MessageId |-> GetMessageId(result)])
    /\ pc' = "pp_return"
    /\ UNCHANGED <<config, frame, issued, outcome, history, nsends>>

\* a mutation of PP_Return: the record printed from, with the id defaulted,
\* is written back into what is returned
PP_ReturnDefaulted ==
    /\ pc = "pp_return"
    /\ outcome' = [kind |-> "returned",
                   value |-> [MessageResponse |-> [Result |->
                       [a \in {phone_number} |->
                           [StatusCode |-> result.StatusCode,
                            StatusMessage |-> result.StatusMessage,
                            MessageId |-> GetMessageId(result)]]]]]
    /\ pc' = "done"
    /\ UNCHANGED <<config, frame, printed, issued, history, nsends>>

\* line 62: return response
PP_Return ==
    /\ pc = "pp_return"
    /\ outcome' = [kind |-> "returned", value |-> response]
    /\ pc' = "done"
    /\ UNCHANGED <<config, frame, printed, issued, history, nsends>>

\* line 64: print(f"... Failed to send SMS via Pinpoint: {str(e)}")
PP_ExceptPrint ==
    /\ pc = "pp_except"
    /\ printed' = Append(printed, [fmt |-> "pp_failed", text |-> PyStr(e)])
    /\ pc' = "pp_raise"
    /\ UNCHANGED <<config, frame, issued, outcome, history, nsends>>

\* line 65: raise e
PP_Reraise ==
    /\ pc = "pp_raise"
    /\ outcome' = [kind |-> "raised", value |-> e]
    /\ pc' = "done"
    /\ UNCHANGED <<config, frame, printed, issued, history, nsends>>

\* ------------------------------------------------------ sns/sms_sender.py
\* send_sms(phone_number, message)
SNS_Call ==
    /\ CanCall
    /\ \E phone \in PhoneNumbers, msg \in Messages :
           Enter("sns", phone, msg, None, None, "sns_set_attributes")

\* the request set_sms_attributes is called with (lines 23-27)
SetSmsAttributesRequest ==
    [op |-> "set_sms_attributes", DefaultSMSType |-> "Transactional"]

\* line 32 (lines 22-27), the provider answers
SNS_SetSmsAttributesReturns ==
    /\ pc = "sns_set_attributes"
    /\ issued' = Append(issued, [request |-> SetSmsAttributesRequest,
                                  raised |-> FALSE, returned |-> NoneObj])
    /\ history' = Append(history, <<nsends, "set_sms_attributes", FALSE>>)
    /\ pc' = "sns_publish"
    /\ UNCHANGED <<config, frame, printed, outcome, nsends>>

\* a mutation of SNS_SetSmsAttributesRaises: the failure is ignored
SNS_SetSmsAttributesIgnored ==
    /\ pc = "sns_set_attributes"
    /\ \E x \in ProviderErrors :
        issued' = Append(issued, [request |-> SetSmsAttributesRequest,
                                   raised |-> TRUE, returned |-> x])
    /\ history' = Append(history, <<nsends, "set_sms_attributes", TRUE>>)
    /\ pc' = "sns_publish"
    /\ UNCHANGED <<config, frame, printed, outcome, nsends>>

\* line 32 (lines 22-27), the provider raises
SNS_SetSmsAttributesRaises ==
    /\ pc = "sns_set_attributes"
    /\ \E x \in ProviderErrors :
        /\ e' = x
        /\ issued' = Append(issued, [request |-> SetSmsAttributesRequest,
                                      raised |-> TRUE, returned |-> x])
    /\ history' = Append(history, <<nsends, "set_sms_attributes", TRUE>>)
    /\ pc' = "sns_except"
    /\ UNCHANGED <<config, path, phone_number, message, project_id, message_type,
                   pinpoint_project_id, response, result, printed, outcome, nsends>>

\* the request publish is called with (lines 34-35)
PublishRequest ==
    [op |-> "publish", Address |-> phone_number, Body |-> message]

\* lines 33-36, the provider answers
SNS_PublishReturns ==
    /\ pc = "sns_publish"
    /\ \E r \in SnsResponses :
        /\ response' = r
        /\ issued' = Append(issued, [request |-> PublishRequest,
                                      raised |-> FALSE, returned |-> r])
    /\ history' = Append(history, <<nsends, "publish", FALSE>>)
    /\ pc' = "sns_print"
    /\ UNCHANGED <<config, path, phone_number, message, project_id, message_type,
                   pinpoint_project_id, result, e, printed, outcome, nsends>>

\* lines 33-36, the provider raises
SNS_PublishRaises ==
    /\ pc = "sns_publish"
    /\ \E x \in ProviderErrors :
        /\ e' = x
        /\ issued' = Append(issued, [request |-> PublishRequest,
                                      raised |-> TRUE, returned |-> x])
    /\ history' = Append(history, <<nsends, "publish", TRUE>>)
    /\ pc' = "sns_except"
    /\ UNCHANGED <<config, path, phone_number, message, project_id, message_type,
                   pinpoint_project_id, response, result, printed, outcome, nsends>>

\* line 37: print("... SMS sent! Message ID:", response['MessageId'])
SNS_PrintSent ==
    /\ pc = "sns_print"
    /\ IF "MessageId" \in DOMAIN response
          THEN /\ printed' = Append(printed, [fmt |-> "sns_sent",
                                              MessageId |-> response.MessageId])
               /\ e' = e
               /\ pc' = "sns_return"
          ELSE /\ printed' = printed
               /\ e' = KeyError("MessageId")
               /\ pc' = "sns_except"
    /\ UNCHANGED <<config, path, phone_number, message, project_id, message_type,
                   pinpoint_project_id, response, result, issued, outcome, history,
                   nsends>>

\* a mutation of SNS_ExceptPrint: the exception is swallowed with no line printed
SNS_ExceptSilent ==
    /\ pc = "sns_except"
    /\ pc' = "sns_return"
    /\ UNCHANGED <<config, frame, printed, issued, outcome, history, nsends>>

\* lines 38-39: except Exception as e: print("... Failed to send SMS:", str(e))
SNS_ExceptPrint ==
    /\ pc = "sns_except"
    /\ printed' = Append(printed, [fmt |-> "sns_failed", text |-> PyStr(e)])
    /\ pc' = "sns_return"
    /\ UNCHANGED <<config, frame, issued, outcome, history, nsends>>

\* the function body ends (after line 37 or line 39): send_sms returns None
SNS_Return ==
    /\ pc = "sns_return"
    /\ outcome' = [kind |-> "returned", value |-> NoneObj]
    /\ pc' = "done"
    /\ UNCHANGED <<config, frame, printed, issued, history, nsends>>

Next ==
    \/ PP_Call
    \/ PP_Resolve
    \/ PP_CheckProjectId
    \/ PP_SendMessagesReturns
    \/ PP_SendMessagesRaises
    \/ PP_ReadResult
    \/ PP_PrintStatus
    \/ PP_PrintMessageId
    \/ PP_Return
    \/ PP_ExceptPrint
    \/ PP_Reraise
    \/ SNS_Call
    \/ SNS_SetSmsAttributesReturns
    \/ SNS_SetSmsAttributesRaises
    \/ SNS_PublishReturns
    \/ SNS_PublishRaises
    \/ SNS_PrintSent
    \/ SNS_ExceptPrint
    \/ SNS_Return

Spec == Init /\ [][Next]_vars

\* ------------------------------------------------- what a call has shown
Done == pc = "done"
SendOps == {"send_messages", "publish"}
\* the message-send operations the call has invoked
SendCalls == { i \in DOMAIN issued : issued[i].request.op \in SendOps }
\* some provider operation of the call raised
ProviderRaised == \E i \in DOMAIN issued : issued[i].raised
SetAttributesRaised ==
    \E i \in DOMAIN issued :
        issued[i].request.op = "set_sms_attributes" /\ issued[i].raised
SuccessLines ==
    { i \in DOMAIN printed : printed[i].fmt \in {"pp_sent", "pp_message_id", "sns_sent"} }
FailureLines ==
    { i \in DOMAIN printed : printed[i].fmt \in {"pp_failed", "sns_failed"} }
\* the call got past identifier resolution (the sns script has none)
ResolutionPassed ==
    \/ path = "sns"
    \/ path = "pinpoint" /\ pc \notin {"pp_resolve", "pp_check"}
                         /\ Truthy(pinpoint_project_id)
\* the message-send operation returned a response the script reads without error
ReadableResponse ==
    \E i \in SendCalls :
        /\ ~issued[i].raised
        /\ IF issued[i].request.op = "publish"
              THEN "MessageId" \in DOMAIN issued[i].returned
              ELSE LET res == issued[i].returned.MessageResponse.Result
                   IN  /\ issued[i].request.Address \in DOMAIN res
                       /\ {"StatusCode", "StatusMessage"} \subseteq
                              DOMAIN res[issued[i].request.Address]

\* ------------------------------------------------------------------ claims

\* C1: on the Pinpoint path, a call whose project_id argument and whose default
\* PINPOINT_PROJECT_ID are both missing (None or empty) never invokes
\* send_messages, never returns a value, and ends by raising the ValueError.
C1_MissingProjectIdFails ==
    (path = "pinpoint" /\ ~Truthy(project_id) /\ ~Truthy(PINPOINT_PROJECT_ID)) =>
        /\ issued = <<>>
        /\ outcome.kind # "returned"
        /\ Done => (outcome.kind = "raised" /\ outcome.value.type = "ValueError")
C1_Witness ==
    /\ Done /\ path = "pinpoint"
    /\ project_id = "" /\ PINPOINT_PROJECT_ID = None
    /\ outcome.kind = "raised"

\* C2: on both paths, a completed send in which a provider operation raised has
\* printed a failure line and has propagated an error to its caller.
C2_ProviderErrorPropagates ==
    (Done /\ ProviderRaised) => (FailureLines # {} /\ outcome.kind = "raised")

\* C3: the ApplicationId send_messages is called with is the project_id argument
\* whenever that argument is present (not None, not empty), whatever the
\* default; it differs from the argument only when the argument is missing,
\* and is then the default PINPOINT_PROJECT_ID.
C3_ExplicitProjectIdWins ==
    \A i \in DOMAIN issued :
        issued[i].request.op = "send_messages" =>
            LET app == issued[i].request.ApplicationId
            IN  /\ Truthy(project_id) => app = project_id
                /\ app # project_id =>
                       (~Truthy(project_id) /\ app = PINPOINT_PROJECT_ID)
C3_Witness ==
    /\ path = "pinpoint" /\ project_id = "projA" /\ PINPOINT_PROJECT_ID = "projD"
    /\ SendCalls # {}

\* C4 (as stated): every completed send that passed identifier resolution has
\* invoked the message-send operation exactly once.
C4_ExactlyOneSendCall ==
    (Done /\ ResolutionPassed) => Cardinality(SendCalls) = 1

\* C4 (amended): a send never invokes the message-send operation more than once;
\* a completed send that passed identifier resolution has invoked it exactly
\* once, unless its set_sms_attributes call raised, and then not at all.
C4_OneSendCallUnlessAttributesRaised ==
    /\ Cardinality(SendCalls) <= 1
    /\ (Done /\ ResolutionPassed /\ ~SetAttributesRaised) =>
           Cardinality(SendCalls) = 1
    /\ SetAttributesRaised => Cardinality(SendCalls) = 0
C4_Witness ==
    /\ Done /\ path = "pinpoint" /\ ResolutionPassed
    /\ Cardinality(SendCalls) = 1 /\ ProviderRaised

\* C5: on the Pinpoint path, a completed send whose send_messages call returned
\* a per-destination record with a non-success status has raised an error.
C5_NonSuccessStatusFails ==
    (/\ Done /\ path = "pinpoint"
     /\ \E i \in SendCalls :
          /\ ~issued[i].raised
          /\ LET res == issued[i].returned.MessageResponse.Result
             IN  /\ phone_number \in DOMAIN res
                 /\ "StatusCode" \in DOMAIN res[phone_number]
                 /\ res[phone_number].StatusCode # 200)
    => outcome.kind = "raised"

\* C6: on the Pinpoint path, a send whose send_messages call returned a readable
\* record for the destination returns a value, and the value a send returns
\* carries, under the destination address, the status code and status message
\* the provider gave, and a MessageId exactly when the provider gave one.
C6_ReturnedValueMatchesProvider ==
    (Done /\ path = "pinpoint") =>
        /\ ReadableResponse => outcome.kind = "returned"
        /\ outcome.kind = "returned" =>
            /\ issued # <<>>
            /\ ~issued[Len(issued)].raised
            /\ LET given == issued[Len(issued)].returned.MessageResponse.Result
                   got == outcome.value.MessageResponse.Result
               IN  /\ phone_number \in DOMAIN given
                   /\ phone_number \in DOMAIN got
                   /\ got[phone_number].StatusCode = given[phone_number].StatusCode
                   /\ got[phone_number].StatusMessage =
                          given[phone_number].StatusMessage
                   /\ ("MessageId" \in DOMAIN got[phone_number]) <=>
                          ("MessageId" \in DOMAIN given[phone_number])
                   /\ "MessageId" \in DOMAIN given[phone_number] =>
                          got[phone_number].MessageId = given[phone_number].MessageId
C6_Witness ==
    /\ Done /\ path = "pinpoint" /\ outcome.kind = "returned"
    /\ "MessageId" \notin DOMAIN outcome.value.MessageResponse.Result[phone_number]

\* C7: every message-send operation invoked so far was given a present,
\* non-empty destination address and a present, non-empty body.
C7_SendCallHasDestinationAndBody ==
    \A i \in SendCalls :
        Truthy(issued[i].request.Address) /\ Truthy(issued[i].request.Body)

\* C8: in the log of provider operations over all sends, every publish is
\* immediately preceded by a set_sms_attributes call of the same send that
\* returned; and every sns send past its first statement has made that call.
C8_AttributesBeforeEveryPublish ==
    /\ \A i \in DOMAIN history :
          history[i][2] = "publish" =>
              /\ i > 1
              /\ history[i - 1] = <<history[i][1], "set_sms_attributes", FALSE>>
    /\ (path = "sns" /\ pc # "sns_set_attributes") =>
          \E i \in DOMAIN history :
              history[i][1] = nsends /\ history[i][2] = "set_sms_attributes"
C8_Witness ==
    \E i, j \in DOMAIN history :
        /\ i < j
        /\ history[i][2] = "publish" /\ history[j][2] = "publish"
        /\ history[i][1] # history[j][1]

\* C9: a send never prints both a success and a failure line; a completed send
\* has printed one of the two, the success line exactly when the message-send
\* operation returned a response the script read without an exception, and
\* otherwise one failure line with the text of the exception; an error
\* reaches the caller only after the failure line, and a send that printed a
\* failure line returns no result.
C9_OneOutcomeReport ==
    /\ ~(SuccessLines # {} /\ FailureLines # {})
    /\ Done => (SuccessLines # {} \/ FailureLines # {})
    /\ Done => (SuccessLines # {} <=> ReadableResponse)
    /\ Cardinality(FailureLines) <= 1
    /\ \A i \in FailureLines :
          /\ printed[i].text = PyStr(e)
          /\ ProviderRaised => printed[i].text = PyStr(issued[Len(issued)].returned)
    /\ outcome.kind = "raised" => FailureLines # {}
    /\ FailureLines # {} => ~(outcome.kind = "returned" /\ outcome.value # NoneObj)
C9_Witness ==
    /\ Done /\ path = "sns" /\ FailureLines # {} /\ ~ProviderRaised

\* C10: in every state the configuration globals and the two client handles
\* are what the environment gave at process start, and a Pinpoint send with no
\* explicit project id resolves to the default of that environment, whatever
\* earlier sends did.
C10_ConfigurationUnchanged ==
    /\ AWS_ACCESS_KEY_ID = Getenv(environ, "AWS_ACCESS_KEY_ID", None)
    /\ AWS_SECRET_ACCESS_KEY = Getenv(environ, "AWS_SECRET_ACCESS_KEY", None)
    /\ AWS_REGION = Getenv(environ, "AWS_REGION", "us-east-1")
    /\ PINPOINT_PROJECT_ID = Getenv(environ, "PINPOINT_PROJECT_ID", None)
    /\ pinpoint_client = Boto3Client("pinpoint", AWS_REGION, AWS_ACCESS_KEY_ID,
                                     AWS_SECRET_ACCESS_KEY)
    /\ sns_client = Boto3Client("sns", AWS_REGION, AWS_ACCESS_KEY_ID,
                                AWS_SECRET_ACCESS_KEY)
    /\ (path = "pinpoint" /\ pc # "pp_resolve" /\ ~Truthy(project_id)) =>
          pinpoint_project_id = Getenv(environ, "PINPOINT_PROJECT_ID", None)
C10_Witness ==
    /\ Done /\ nsends >= 2 /\ Len(history) >= 2
    /\ history[1][1] = 1 /\ history[1][2] = "send_messages"
    /\ path = "pinpoint" /\ project_id = None /\ pinpoint_project_id = "projD"

=============================================================================
